---- MODULE Spec2Model ----
(***************************************************************************)
(* Survival-analysis engine of AMATERASU (src/survival.py): the log-rank   *)
(* test, the optimal-threshold search, the survival-curve estimator and    *)
(* the scan driver.                                                        *)
(*                                                                         *)
(* Numbers.  The program computes in IEEE doubles.  The model computes in  *)
(* exact rationals <<n, d>> (d > 0, lowest terms) extended by NaN, written *)
(* <<0, 0>>: the only non-finite value the modelled code can produce is    *)
(* the 0/0 of line 35.  Rounding is not modelled.                          *)
(***************************************************************************)
EXTENDS Integers, Sequences, FiniteSets, TLC

VARIABLES
    durations,      \* cohort: duration of each observation
    events,         \* cohort: 1 = event observed, 0 = censored
    groups,         \* cohort: group label of each observation
    lr_pc,          \* calculate_logrank: "idle" | "loop" | "done"
    lr_times,       \* calculate_logrank: unique event times still to visit
    lr_t,           \* calculate_logrank: the time visited last (-1: none)
    O_E,            \* calculate_logrank: observed - expected, per group
    V,              \* calculate_logrank: variance-covariance matrix
    lr_result,      \* calculate_logrank: <<chi2, p_value>>
    values,         \* find_optimal_threshold: the variable's values
    th_pc,          \* find_optimal_threshold: "off" | "idle" (called) | "loop" | "done"
    th_q,           \* find_optimal_threshold: the percentile visited next
    min_p_value,    \* find_optimal_threshold: smallest p-value so far
    optimal_threshold,  \* find_optimal_threshold: its threshold
    th_calls,       \* find_optimal_threshold: the candidates evaluated
    th_result,      \* find_optimal_threshold: the value returned
    km_pc,          \* generate_survival_plot: "idle" | "walk" | "done"
    km_i,           \* generate_survival_plot: position of the group in hand
    duration_sorted,    \* ... its durations, ascending
    event_sorted,   \* ... and their event flags
    unique_times,   \* ... 0 and its distinct durations, ascending
    survival,       \* ... survival probability per unique time
    at_risk,        \* ... observations not yet passed
    idx,            \* ... observations passed (index into the sorted arrays)
    km_j,           \* ... index in unique_times of the time in hand
    censored_times, \* ... marker times
    censored_survivals, \* ... marker probabilities
    plotted,        \* generate_survival_plot: what was drawn, per group
    group_columns,  \* survival: the variables asked for
    tb_time,        \* survival: the table's time column
    tb_event,       \* survival: the table's event column
    tb_var,         \* survival: the metadata column "var" (0: missing)
    tb_kind,        \* survival: its dtype, "numerical" | "categorical"
    tb_genes,       \* survival: the gene columns, by name
    sc_pc,          \* survival: "off" | "columns" | "search" | "genes" |
                    \*           "save" | "done" | "crashed"
    sc_k,           \* survival: position in group_columns, then in genes
    results,        \* survival: rows of survival_variables.csv so far
    variables_file, \* survival: survival_variables.csv as written
    gene_results,   \* survival: rows of survival_genes.csv so far
    genes_file,     \* survival: survival_genes.csv as written
    plots,          \* survival: the variables a plot was drawn for
    warnings,       \* survival: the columns a [Warning] was printed for
    skipped,        \* survival: the columns and genes passed over for
                    \*           having fewer than 2 groups
    sc_calls        \* survival: the groups given to calculate_logrank

cohortVars == <<durations, events, groups>>
lrVars == <<lr_pc, lr_times, lr_t, O_E, V, lr_result>>
thVars == <<values, th_pc, th_q, min_p_value, optimal_threshold, th_calls, th_result>>

kmVars == <<km_pc, km_i, duration_sorted, event_sorted, unique_times, survival,
            at_risk, idx, km_j, censored_times, censored_survivals, plotted>>

tbVars == <<group_columns, tb_time, tb_event, tb_var, tb_kind, tb_genes>>
scVars == <<sc_pc, sc_k, results, variables_file, gene_results, genes_file, plots,
            warnings, skipped, sc_calls>>

vars == <<cohortVars, lrVars, thVars, kmVars, tbVars, scVars>>

----------------------------------------------------------------------------
(* Bounds of the model *)

MaxObs == 3
MaxRows == 4
MaxScanRows == 3

DurationDomain == {1, 2}
GroupDomain == {0, 1, 2}

----------------------------------------------------------------------------
(* Float arithmetic *)

NaN == <<0, 0>>
Zero == <<0, 1>>
One == <<1, 1>>

IsNaN(x) == x[2] = 0

Abs(n) == IF n < 0 THEN -n ELSE n

RECURSIVE GCD(_, _)
GCD(a, b) == IF b = 0 THEN a ELSE GCD(b, a % b)

Norm(n, d) ==
    IF d = 0 THEN NaN
    ELSE LET g == GCD(Abs(n), Abs(d))
             s == IF d < 0 THEN -1 ELSE 1
         IN  <<(s * n) \div g, (s * d) \div g>>

FInt(n) == <<n, 1>>

FAdd(x, y) == IF IsNaN(x) \/ IsNaN(y) THEN NaN
              ELSE Norm(x[1] * y[2] + y[1] * x[2], x[2] * y[2])

FSub(x, y) == IF IsNaN(x) \/ IsNaN(y) THEN NaN
              ELSE Norm(x[1] * y[2] - y[1] * x[2], x[2] * y[2])

FMul(x, y) == IF IsNaN(x) \/ IsNaN(y) THEN NaN
              ELSE Norm(x[1] * y[1], x[2] * y[2])

\* numpy true division: 0/0 is nan (a RuntimeWarning, no exception).  A
\* non-zero numerator over 0 (inf) does not occur in the modelled code.
FDiv(x, y) == IF IsNaN(x) \/ IsNaN(y) THEN NaN
              ELSE Norm(x[1] * y[2], x[2] * y[1])

\* IEEE comparisons: any comparison with NaN is false.
FLess(x, y) == ~IsNaN(x) /\ ~IsNaN(y) /\ x[1] * y[2] < y[1] * x[2]
FLeq(x, y) == ~IsNaN(x) /\ ~IsNaN(y) /\ x[1] * y[2] <= y[1] * x[2]

----------------------------------------------------------------------------
(* Array helpers *)

Range(s) == {s[i] : i \in 1..Len(s)}

RECURSIVE SortedSeq(_)
SortedSeq(S) ==
    IF S = {} THEN <<>>
    ELSE LET m == CHOOSE x \in S : \A y \in S : x <= y
         IN  <<m>> \o SortedSeq(S \ {m})

\* np.unique: the sorted distinct values
Unique(s) == SortedSeq(Range(s))

ZeroVec(n) == [i \in 1..n |-> Zero]
ZeroMat(n) == [i \in 1..n |-> [j \in 1..n |-> Zero]]

\* M without row i and column j
Minor(M, i, j) ==
    LET n == Len(M)
        Skip(k, c) == IF k < c THEN k ELSE k + 1
    IN  [r \in 1..(n - 1) |-> [c \in 1..(n - 1) |-> M[Skip(r, i)][Skip(c, j)]]]

RECURSIVE Det(_)
Det(M) ==
    IF Len(M) = 0 THEN One
    ELSE LET RECURSIVE Expand(_)
             Expand(j) ==
                 IF j > Len(M) THEN Zero
                 ELSE LET term == FMul(M[1][j], Det(Minor(M, 1, j)))
                      IN  IF j % 2 = 1 THEN FAdd(term, Expand(j + 1))
                          ELSE FAdd(FSub(Zero, term), Expand(j + 1))
         IN  Expand(1)

\* np.dot of two vectors
RECURSIVE DotFrom(_, _, _)
DotFrom(a, b, i) ==
    IF i > Len(a) THEN Zero ELSE FAdd(FMul(a[i], b[i]), DotFrom(a, b, i + 1))

Dot(a, b) == DotFrom(a, b, 1)

\* np.linalg.solve raises LinAlgError exactly when the factorisation meets
\* a zero pivot: in exact arithmetic, when the determinant is 0.  A matrix
\* of NaN has no zero pivot and is not reported singular.
IsSingular(M) == Det(M) = Zero

\* np.linalg.solve(M, b) for a non-singular M (Cramer's rule)
Solve(M, b) ==
    LET d == Det(M)
        Put(j) == [r \in 1..Len(M) |->
                      [c \in 1..Len(M) |-> IF c = j THEN b[r] ELSE M[r][c]]]
    IN  [j \in 1..Len(M) |-> FDiv(Det(Put(j)), d)]

----------------------------------------------------------------------------
(* p-values.  scipy.stats.chi2.sf(x, df) is not computed: a p-value is kept *)
(* as the point x of the chi-square tail it is the mass of.  sf is nan for  *)
(* df <= 0 or x nan, 1 for x <= 0, and strictly decreasing in x for x > 0.  *)

PNaN == [kind |-> "nan", x |-> Zero, df |-> 0]
POne == [kind |-> "one", x |-> Zero, df |-> 0]
PInf == [kind |-> "inf", x |-> Zero, df |-> 0]

Chi2SF(x, df) ==
    IF IsNaN(x) \/ df <= 0 THEN PNaN
    ELSE IF FLeq(x, Zero) THEN POne
    ELSE [kind |-> "sf", x |-> x, df |-> df]

\* p <= q for p-values of the same degrees of freedom
PLeq(p, q) ==
    /\ p.kind # "nan" /\ q.kind # "nan"
    /\ \/ p = q
       \/ q.kind = "inf"
       \/ p.kind = "sf" /\ q.kind = "one"
       \/ p.kind = "sf" /\ q.kind = "sf" /\ FLeq(q.x, p.x)

\* p < q for p-values of the same degrees of freedom (float('inf') included)
PLess(p, q) ==
    /\ p.kind # "nan" /\ q.kind # "nan"
    /\ p.kind # "inf"
    /\ \/ q.kind = "inf"
       \/ p.kind = "sf" /\ q.kind = "one"
       \/ p.kind = "sf" /\ q.kind = "sf" /\ FLess(q.x, p.x)

----------------------------------------------------------------------------
(* calculate_logrank *)

\* line 11: np.unique(durations[events == 1])
EventTimes(d, e) == SortedSeq({d[i] : i \in {k \in 1..Len(d) : e[k] = 1}})

NAtRisk(d, t) == Cardinality({i \in 1..Len(d) : d[i] >= t})
NEvents(d, e, t) == Cardinality({i \in 1..Len(d) : d[i] = t /\ e[i] = 1})
NGroupAtRisk(d, g, t, grp) == Cardinality({i \in 1..Len(d) : d[i] >= t /\ g[i] = grp})
NGroupEvents(d, e, g, t, grp) ==
    Cardinality({i \in 1..Len(d) : d[i] = t /\ e[i] = 1 /\ g[i] = grp})

\* line 25: the times the loop skips
SkipsTime(d, e, t) == NEvents(d, e, t) = 0 \/ NAtRisk(d, t) = 0

\* line 35
Factor(n_events, n_at_risk) ==
    FDiv(FInt(n_events * (n_at_risk - n_events)),
         FInt(n_at_risk * n_at_risk * (n_at_risk - 1)))

\* VarianceTerm with the sign of the covariance lost
VarianceTerm_PositiveCovariance(same, n_i, n_j, n_at_risk, factor) ==
    IF same THEN FMul(FInt(n_i * (n_at_risk - n_i)), factor)
    ELSE FMul(FInt(n_i * n_j), factor)

\* lines 39-42: what one time adds to V[i, j]
VarianceTerm(same, n_i, n_j, n_at_risk, factor) ==
    IF same THEN FMul(FInt(n_i * (n_at_risk - n_i)), factor)
    ELSE FMul(FInt(-(n_i * n_j)), factor)

\* lines 21-42: one pass of the loop over unique_times; acc = <<O_E, V>>
LogrankStep(d, e, g, acc, t) ==
    LET ug == Unique(g)
        n_events == NEvents(d, e, t)
        n_at_risk == NAtRisk(d, t)
        nar(i) == NGroupAtRisk(d, g, t, ug[i])
        factor == Factor(n_events, n_at_risk)
    IN  IF SkipsTime(d, e, t) THEN acc
        ELSE <<[i \in 1..Len(ug) |->
                   FAdd(acc[1][i],
                        FSub(FInt(NGroupEvents(d, e, g, t, ug[i])),
                             FDiv(FInt(n_events * nar(i)), FInt(n_at_risk))))],
               [i \in 1..Len(ug) |-> [j \in 1..Len(ug) |->
                   FAdd(acc[2][i][j],
                        VarianceTerm(i = j, nar(i), nar(j), n_at_risk, factor))]]>>

\* lines 45-53
LogrankSolve(n_groups, acc) ==
    LET df == n_groups - 1
        m == IF n_groups = 0 THEN 0 ELSE n_groups - 1
        oe == [i \in 1..m |-> acc[1][i]]
        v == [i \in 1..m |-> [j \in 1..m |-> acc[2][i][j]]]
    IN  IF IsSingular(v) THEN <<Zero, POne>>
        ELSE LET chi2 == Dot(oe, Solve(v, oe))
             IN  <<chi2, Chi2SF(chi2, df)>>

RECURSIVE LogrankLoop(_, _, _, _, _)
LogrankLoop(d, e, g, acc, times) ==
    IF times = <<>> THEN acc
    ELSE LogrankLoop(d, e, g, LogrankStep(d, e, g, acc, Head(times)), Tail(times))

\* calculate_logrank as a function of its arguments
calculate_logrank(d, e, g) ==
    LET n == Len(Unique(g))
    IN  LogrankSolve(n, LogrankLoop(d, e, g, <<ZeroVec(n), ZeroMat(n)>>,
                                    EventTimes(d, e)))

----------------------------------------------------------------------------
(* find_optimal_threshold *)

\* the window opened at the 10th percentile
FirstPercentile_TooLow == 20 - 10

\* line 59: np.arange(20, 81, 1)
FirstPercentile == 20
LastPercentile == 80

\* the values in ascending order, repeats kept
RECURSIVE SortValues(_)
SortValues(s) ==
    IF s = <<>> THEN <<>>
    ELSE LET i == CHOOSE k \in 1..Len(s) : \A m \in 1..Len(s) : s[k] <= s[m]
         IN  <<s[i]>> \o SortValues([k \in 1..(Len(s) - 1) |->
                                        IF k < i THEN s[k] ELSE s[k + 1]])

\* np.percentile(vals, q), linear interpolation; nan for no values
Percentile(vals, q) ==
    LET sv == SortValues(vals)
        n == Len(vals)
        lo == (q * (n - 1)) \div 100
        rem == (q * (n - 1)) % 100
    IN  IF n = 0 THEN NaN
        ELSE IF rem = 0 THEN FInt(sv[lo + 1])
        ELSE FAdd(FInt(sv[lo + 1]),
                  FMul(Norm(rem, 100), FInt(sv[lo + 2] - sv[lo + 1])))

\* np.median(vals); nan for no values
Median(vals) ==
    LET sv == SortValues(vals)
        n == Len(vals)
    IN  IF n = 0 THEN NaN
        ELSE IF n % 2 = 1 THEN FInt(sv[(n + 1) \div 2])
        ELSE FDiv(FInt(sv[n \div 2] + sv[n \div 2 + 1]), FInt(2))

\* (values > threshold).astype(int)
SplitAt(vals, threshold) ==
    [i \in 1..Len(vals) |-> IF FLess(threshold, FInt(vals[i])) THEN 1 ELSE 0]

\* line 65: the candidates the search passes over
SearchSkips(grp) == Len(Unique(grp)) < 2

\* lines 60-61: the search's variables before the loop
SearchStart(vals) ==
    [min_p_value |-> PInf, optimal_threshold |-> Median(vals), calls |-> <<>>]

\* lines 64-71: one pass of the loop, for the percentile q.  calls records
\* each use of calculate_logrank: the percentile, the threshold, the groups
\* passed and the p-value returned.
SearchStep(vals, d, e, st, q) ==
    LET threshold == Percentile(vals, q)
        grp == SplitAt(vals, threshold)
    IN  IF SearchSkips(grp) THEN st
        ELSE LET p_value == calculate_logrank(d, e, grp)[2]
                 call == [q |-> q, threshold |-> threshold, groups |-> grp,
                          p_value |-> p_value]
             IN  IF PLess(p_value, st.min_p_value)
                 THEN [min_p_value |-> p_value, optimal_threshold |-> threshold,
                       calls |-> Append(st.calls, call)]
                 ELSE [st EXCEPT !.calls = Append(st.calls, call)]

----------------------------------------------------------------------------
(* The cohorts the model draws *)

SeqsUpTo(S, n) == UNION {[1..k -> S] : k \in 0..n}

Cohorts == SeqsUpTo(DurationDomain \X {0, 1} \X GroupDomain, MaxObs)

ValueDomain == {1, 2, 3}

\* (value, duration, event) rows in dictionary order
RowLeq(a, b) ==
    \/ a[1] < b[1]
    \/ a[1] = b[1] /\ a[2] < b[2]
    \/ a[1] = b[1] /\ a[2] = b[2] /\ a[3] <= b[3]

\* What find_optimal_threshold is given: (value, duration, event) per row.
\* The rows are drawn in ascending order only: the function reads the values
\* through np.percentile and np.median, which sort them, and through the
\* row-wise test of line 64, and calculate_logrank does not depend on the
\* order of its rows (C3).
ValuedCohorts ==
    {c \in SeqsUpTo(ValueDomain \X DurationDomain \X {0, 1}, MaxRows) :
        \A i \in 1..(Len(c) - 1) : RowLeq(c[i], c[i + 1])}

\* what generate_survival_plot is given; durations may be 0
CurveCohorts == SeqsUpTo((DurationDomain \cup {0}) \X {0, 1} \X {0, 1}, MaxObs)

CohortDurations(c) == [i \in 1..Len(c) |-> c[i][1]]
CohortEvents(c) == [i \in 1..Len(c) |-> c[i][2]]
CohortGroups(c) == [i \in 1..Len(c) |-> c[i][3]]

----------------------------------------------------------------------------
(* calculate_logrank, one pass of its loop per step *)

LogrankIdle ==
    /\ lr_pc = "idle"
    /\ lr_times = <<>>
    /\ lr_t = -1
    /\ O_E = <<>>
    /\ V = <<>>
    /\ lr_result = <<>>

ScanIdle ==
    /\ group_columns = <<>>
    /\ tb_time = <<>>
    /\ tb_event = <<>>
    /\ tb_var = <<>>
    /\ tb_kind = "numerical"
    /\ tb_genes = <<>>
    /\ sc_pc = "off"
    /\ sc_k = 1
    /\ results = <<>>
    /\ variables_file = <<>>
    /\ gene_results = <<>>
    /\ genes_file = <<>>
    /\ plots = <<>>
    /\ warnings = <<>>
    /\ skipped = <<>>
    /\ sc_calls = <<>>

CurveIdle ==
    /\ km_pc = "idle"
    /\ km_i = 1
    /\ duration_sorted = <<>>
    /\ event_sorted = <<>>
    /\ unique_times = <<>>
    /\ survival = <<>>
    /\ at_risk = 0
    /\ idx = 0
    /\ km_j = 1
    /\ censored_times = <<>>
    /\ censored_survivals = <<>>
    /\ plotted = <<>>

ThresholdIdle ==
    /\ values = <<>>
    /\ th_pc = "off"
    /\ th_q = FirstPercentile
    /\ min_p_value = PInf
    /\ optimal_threshold = NaN
    /\ th_calls = <<>>
    /\ th_result = <<>>

LogrankStart ==
    /\ lr_pc = "idle"
    /\ lr_pc' = "loop"
    /\ lr_times' = EventTimes(durations, events)
    /\ lr_t' = -1
    /\ O_E' = ZeroVec(Len(Unique(groups)))
    /\ V' = ZeroMat(Len(Unique(groups)))
    /\ UNCHANGED <<thVars, kmVars, tbVars, scVars, durations, events, groups, lr_result>>

LogrankTime ==
    /\ lr_pc = "loop"
    /\ lr_times # <<>>
    /\ LET acc == LogrankStep(durations, events, groups, <<O_E, V>>, Head(lr_times))
       IN  O_E' = acc[1] /\ V' = acc[2]
    /\ lr_t' = Head(lr_times)
    /\ lr_times' = Tail(lr_times)
    /\ UNCHANGED <<thVars, kmVars, tbVars, scVars, durations, events, groups, lr_pc, lr_result>>

LogrankReturn ==
    /\ lr_pc = "loop"
    /\ lr_times = <<>>
    /\ lr_result' = LogrankSolve(Len(Unique(groups)), <<O_E, V>>)
    /\ lr_pc' = "done"
    /\ UNCHANGED <<thVars, kmVars, tbVars, scVars, durations, events, groups, lr_times, lr_t, O_E, V>>

InitLogrank ==
    /\ \E c \in Cohorts :
          /\ durations = CohortDurations(c)
          /\ events = CohortEvents(c)
          /\ groups = CohortGroups(c)
    /\ LogrankIdle
    /\ ThresholdIdle
    /\ CurveIdle
    /\ ScanIdle

NextLogrank == LogrankStart \/ LogrankTime \/ LogrankReturn

SpecLogrank == InitLogrank /\ [][NextLogrank]_vars

----------------------------------------------------------------------------
(* find_optimal_threshold, one candidate per step *)

\* lines 56-57
ThresholdMedian ==
    /\ th_pc = "idle"
    /\ Len(values) < 3
    /\ th_result' = Median(values)
    /\ th_pc' = "done"
    /\ UNCHANGED <<values, th_q, min_p_value, optimal_threshold, th_calls>>
    /\ UNCHANGED <<cohortVars, lrVars, kmVars, tbVars, scVars>>

\* lines 59-61
ThresholdStart ==
    /\ th_pc = "idle"
    /\ Len(values) >= 3
    /\ th_pc' = "loop"
    /\ th_q' = FirstPercentile
    /\ min_p_value' = SearchStart(values).min_p_value
    /\ optimal_threshold' = SearchStart(values).optimal_threshold
    /\ th_calls' = SearchStart(values).calls
    /\ UNCHANGED <<values, th_result>>
    /\ UNCHANGED <<cohortVars, lrVars, kmVars, tbVars, scVars>>

\* lines 63-71
ThresholdCandidate ==
    /\ th_pc = "loop"
    /\ th_q <= LastPercentile
    /\ LET st == SearchStep(values, durations, events,
                            [min_p_value |-> min_p_value,
                             optimal_threshold |-> optimal_threshold,
                             calls |-> th_calls], th_q)
       IN  /\ min_p_value' = st.min_p_value
           /\ optimal_threshold' = st.optimal_threshold
           /\ th_calls' = st.calls
    /\ th_q' = th_q + 1
    /\ UNCHANGED <<values, th_pc, th_result>>
    /\ UNCHANGED <<cohortVars, lrVars, kmVars, tbVars, scVars>>

\* line 73
ThresholdReturn ==
    /\ th_pc = "loop"
    /\ th_q > LastPercentile
    /\ th_result' = optimal_threshold
    /\ th_pc' = "done"
    /\ UNCHANGED <<values, th_q, min_p_value, optimal_threshold, th_calls>>
    /\ UNCHANGED <<cohortVars, lrVars, kmVars, tbVars, scVars>>

InitThreshold ==
    /\ \E c \in ValuedCohorts :
          /\ values = [i \in 1..Len(c) |-> c[i][1]]
          /\ durations = [i \in 1..Len(c) |-> c[i][2]]
          /\ events = [i \in 1..Len(c) |-> c[i][3]]
    /\ groups = <<>>
    /\ LogrankIdle
    /\ th_pc = "idle"
    /\ th_q = FirstPercentile
    /\ min_p_value = PInf
    /\ optimal_threshold = NaN
    /\ th_calls = <<>>
    /\ th_result = <<>>
    /\ CurveIdle
    /\ ScanIdle

NextThreshold ==
    ThresholdMedian \/ ThresholdStart \/ ThresholdCandidate \/ ThresholdReturn

SpecThreshold == InitThreshold /\ [][NextThreshold]_vars

----------------------------------------------------------------------------
(* generate_survival_plot, one observation per step *)

\* the positions of the observations of group grp, in input order
RECURSIVE MaskFrom(_, _, _)
MaskFrom(g, grp, i) ==
    IF i > Len(g) THEN <<>>
    ELSE IF g[i] = grp THEN <<i>> \o MaskFrom(g, grp, i + 1)
    ELSE MaskFrom(g, grp, i + 1)

Masked(s, g, grp) ==
    LET m == MaskFrom(g, grp, 1) IN [k \in 1..Len(m) |-> s[m[k]]]

\* np.argsort(d): positions in ascending order of duration.  Equal
\* durations keep their input order (what the sort does for short arrays);
\* every input order is drawn, so every order of a tie is met.
RECURSIVE ArgSortFrom(_, _)
ArgSortFrom(d, left) ==
    IF left = {} THEN <<>>
    ELSE LET i == CHOOSE k \in left :
                     \A m \in left : d[k] < d[m] \/ (d[k] = d[m] /\ k <= m)
         IN  <<i>> \o ArgSortFrom(d, left \ {i})

ArgSort(d) == ArgSortFrom(d, 1..Len(d))

\* ApplyEvent on survival[j] alone
ApplyEvent_OneStepOnly(surv, j, n_at_risk) ==
    [k \in 1..Len(surv) |->
        IF k = j + 1
        THEN FMul(surv[k], FDiv(FInt(n_at_risk - 1), FInt(n_at_risk)))
        ELSE surv[k]]

\* line 104: survival[j:] *= (at_risk - 1) / at_risk   (j counts from 0)
ApplyEvent(surv, j, n_at_risk) ==
    [k \in 1..Len(surv) |->
        IF k >= j + 1
        THEN FMul(surv[k], FDiv(FInt(n_at_risk - 1), FInt(n_at_risk)))
        ELSE surv[k]]

\* line 102: the condition of the while loop
ObservationDue ==
    /\ idx < Len(duration_sorted)
    /\ duration_sorted[idx + 1] <= unique_times[km_j + 1]

\* lines 82-99
CurveStartGroup ==
    /\ km_pc = "idle"
    /\ km_i <= Len(Unique(groups))
    /\ LET group == Unique(groups)[km_i]
           group_durations == Masked(durations, groups, group)
           group_events == Masked(events, groups, group)
           sort_idx == ArgSort(group_durations)
           ds == [k \in 1..Len(sort_idx) |-> group_durations[sort_idx[k]]]
       IN  /\ duration_sorted' = ds
           /\ event_sorted' = [k \in 1..Len(sort_idx) |-> group_events[sort_idx[k]]]
           /\ unique_times' = Unique(<<0>> \o ds)
           /\ survival' = [k \in 1..Len(Unique(<<0>> \o ds)) |-> One]
           /\ at_risk' = Len(ds)
    /\ idx' = 0
    /\ km_j' = 1
    /\ censored_times' = <<>>
    /\ censored_survivals' = <<>>
    /\ km_pc' = "walk"
    /\ UNCHANGED <<km_i, plotted>>
    /\ UNCHANGED <<cohortVars, lrVars, thVars, tbVars, scVars>>

\* lines 102-109: one pass of the while loop
CurveObservation ==
    /\ km_pc = "walk"
    /\ km_j < Len(unique_times)
    /\ ObservationDue
    /\ IF event_sorted[idx + 1] = 1
       THEN /\ survival' = ApplyEvent(survival, km_j, at_risk)
            /\ UNCHANGED <<censored_times, censored_survivals>>
       ELSE /\ censored_times' = Append(censored_times, duration_sorted[idx + 1])
            /\ censored_survivals' = Append(censored_survivals, survival[km_j])
            /\ UNCHANGED survival
    /\ at_risk' = at_risk - 1
    /\ idx' = idx + 1
    /\ UNCHANGED <<km_pc, km_i, duration_sorted, event_sorted, unique_times, km_j,
                   plotted>>
    /\ UNCHANGED <<cohortVars, lrVars, thVars, tbVars, scVars>>

\* line 101: the while loop is over, on to the next unique time
CurveNextTime ==
    /\ km_pc = "walk"
    /\ km_j < Len(unique_times)
    /\ ~ObservationDue
    /\ km_j' = km_j + 1
    /\ UNCHANGED <<km_pc, km_i, duration_sorted, event_sorted, unique_times,
                   survival, at_risk, idx, censored_times, censored_survivals,
                   plotted>>
    /\ UNCHANGED <<cohortVars, lrVars, thVars, tbVars, scVars>>

\* lines 112-118: the for loop over the times is over, the group is drawn
CurvePlot ==
    /\ km_pc = "walk"
    /\ km_j >= Len(unique_times)
    /\ plotted' = Append(plotted, [times |-> unique_times,
                                   survival |-> survival,
                                   censored_times |-> censored_times,
                                   censored_survivals |-> censored_survivals])
    /\ km_i' = km_i + 1
    /\ km_pc' = "idle"
    /\ UNCHANGED <<duration_sorted, event_sorted, unique_times, survival, at_risk,
                   idx, km_j, censored_times, censored_survivals>>
    /\ UNCHANGED <<cohortVars, lrVars, thVars, tbVars, scVars>>

\* lines 120-128: every group is drawn, the figure is saved
CurveSave ==
    /\ km_pc = "idle"
    /\ km_i > Len(Unique(groups))
    /\ km_pc' = "done"
    /\ UNCHANGED <<km_i, duration_sorted, event_sorted, unique_times, survival,
                   at_risk, idx, km_j, censored_times, censored_survivals, plotted>>
    /\ UNCHANGED <<cohortVars, lrVars, thVars, tbVars, scVars>>

InitCurve ==
    /\ \E c \in CurveCohorts :
          /\ durations = CohortDurations(c)
          /\ events = CohortEvents(c)
          /\ groups = CohortGroups(c)
    /\ LogrankIdle
    /\ ThresholdIdle
    /\ CurveIdle
    /\ ScanIdle

\* the same, of cohorts whose durations are all positive
InitCurvePositive ==
    /\ InitCurve
    /\ \A i \in 1..Len(durations) : durations[i] > 0

NextCurve ==
    CurveStartGroup \/ CurveObservation \/ CurveNextTime \/ CurvePlot \/ CurveSave

SpecCurve == InitCurve /\ [][NextCurve]_vars

SpecCurvePositive == InitCurvePositive /\ [][NextCurve]_vars

----------------------------------------------------------------------------
(* survival: the scan over the requested variables, then over the genes *)

\* The tables drawn have a time column and an event column without missing
\* entries, one metadata column "var" and the gene columns "g1" and "g2".
GeneNames == <<"g1", "g2">>

\* a missing entry of a column (isna)
IsNA(v) == v = 0

\* s[mask]
RECURSIVE KeepFrom(_, _, _)
KeepFrom(s, mask, i) ==
    IF i > Len(s) THEN <<>>
    ELSE IF mask[i] THEN <<s[i]>> \o KeepFrom(s, mask, i + 1)
    ELSE KeepFrom(s, mask, i + 1)

Keep(s, mask) == KeepFrom(s, mask, 1)

\* lines 157 and 232
NotMissing(vals) == [i \in 1..Len(vals) |-> ~IsNA(vals[i])]

InMetadata(column) == column = "var"
InGenes(column) == column \in Range(GeneNames)

\* lines 144-147: the column's values
ColumnValues(column) == IF InMetadata(column) THEN tb_var ELSE tb_genes[column]

\* line 163: is_numeric_dtype; a gene column holds numbers
IsNumeric(column) == IF InMetadata(column) THEN tb_kind = "numerical" ELSE TRUE

\* lines 167, 193 and 238
TooFewGroups(grp) == Len(Unique(grp)) < 2

Column == group_columns[sc_k]

\* lines 148-149
ScanSentinel ==
    /\ sc_pc = "columns"
    /\ sc_k <= Len(group_columns)
    /\ ~InMetadata(Column) /\ ~InGenes(Column)
    /\ Column = "GENES"
    /\ sc_k' = sc_k + 1
    /\ UNCHANGED <<sc_pc, results, variables_file, gene_results, genes_file, plots,
                   warnings, skipped, sc_calls>>
    /\ UNCHANGED <<cohortVars, lrVars, thVars, kmVars, tbVars>>

\* lines 150-152
ScanUnknown ==
    /\ sc_pc = "columns"
    /\ sc_k <= Len(group_columns)
    /\ ~InMetadata(Column) /\ ~InGenes(Column)
    /\ Column # "GENES"
    /\ warnings' = Append(warnings, Column)
    /\ sc_k' = sc_k + 1
    /\ UNCHANGED <<sc_pc, results, variables_file, gene_results, genes_file, plots,
                   skipped, sc_calls>>
    /\ UNCHANGED <<cohortVars, lrVars, thVars, kmVars, tbVars>>

\* lines 144-165: a numerical column, up to the call of find_optimal_threshold
ScanCallThreshold ==
    /\ sc_pc = "columns"
    /\ sc_k <= Len(group_columns)
    /\ InMetadata(Column) \/ InGenes(Column)
    /\ IsNumeric(Column)
    /\ LET mask == NotMissing(ColumnValues(Column))
       IN  /\ durations' = Keep(tb_time, mask)
           /\ events' = Keep(tb_event, mask)
           /\ values' = Keep(ColumnValues(Column), mask)
    /\ th_pc' = "idle"
    /\ th_calls' = <<>>
    /\ th_result' = <<>>
    /\ sc_pc' = "search"
    /\ UNCHANGED <<groups, th_q, min_p_value, optimal_threshold>>
    /\ UNCHANGED <<sc_k, results, variables_file, gene_results, genes_file, plots,
                   warnings, skipped, sc_calls>>
    /\ UNCHANGED <<lrVars, kmVars, tbVars>>

\* lines 165-187: find_optimal_threshold has returned
ScanNumerical ==
    /\ sc_pc = "search"
    /\ th_pc = "done"
    /\ LET threshold == th_result
           grp == SplitAt(values, threshold)
       IN  /\ groups' = grp
           /\ IF TooFewGroups(grp)
              THEN /\ skipped' = Append(skipped, Column)
                   /\ UNCHANGED <<results, plots, sc_calls>>
              ELSE /\ sc_calls' = Append(sc_calls, grp)
                   /\ plots' = Append(plots, Column)
                   /\ results' = Append(results,
                          [variable |-> Column, type |-> "numerical",
                           threshold |-> threshold, df |-> 1,
                           p_value |-> calculate_logrank(durations, events, grp)[2]])
                   /\ UNCHANGED skipped
    /\ th_pc' = "off"
    /\ sc_pc' = "columns"
    /\ sc_k' = sc_k + 1
    /\ UNCHANGED <<durations, events, values, th_q, min_p_value, optimal_threshold,
                   th_calls, th_result>>
    /\ UNCHANGED <<variables_file, gene_results, genes_file, warnings>>
    /\ UNCHANGED <<lrVars, kmVars, tbVars>>

\* lines 144-160 and 190-213: a categorical column
ScanCategorical ==
    /\ sc_pc = "columns"
    /\ sc_k <= Len(group_columns)
    /\ InMetadata(Column) \/ InGenes(Column)
    /\ ~IsNumeric(Column)
    /\ LET mask == NotMissing(ColumnValues(Column))
           d == Keep(tb_time, mask)
           e == Keep(tb_event, mask)
           grp == Keep(ColumnValues(Column), mask)
       IN  /\ durations' = d
           /\ events' = e
           /\ values' = grp
           /\ groups' = grp
           /\ IF TooFewGroups(grp)
              THEN /\ skipped' = Append(skipped, Column)
                   /\ UNCHANGED <<results, plots, sc_calls>>
              ELSE /\ sc_calls' = Append(sc_calls, grp)
                   /\ plots' = Append(plots, Column)
                   /\ results' = Append(results,
                          [variable |-> Column, type |-> "categorical",
                           threshold |-> NaN, df |-> Len(Unique(grp)) - 1,
                           p_value |-> calculate_logrank(d, e, grp)[2]])
                   /\ UNCHANGED skipped
    /\ sc_k' = sc_k + 1
    /\ UNCHANGED <<sc_pc, variables_file, gene_results, genes_file, warnings>>
    /\ UNCHANGED <<th_pc, th_q, min_p_value, optimal_threshold, th_calls, th_result>>
    /\ UNCHANGED <<lrVars, kmVars, tbVars>>

\* lines 216-226: survival_variables.csv is written; the genes follow only
\* when GENES was asked for
ScanSaveVariables ==
    /\ sc_pc = "columns"
    /\ sc_k > Len(group_columns)
    /\ variables_file' = results
    /\ sc_pc' = IF "GENES" \in Range(group_columns) THEN "genes" ELSE "done"
    /\ sc_k' = 1
    /\ UNCHANGED <<results, gene_results, genes_file, plots, warnings, skipped,
                   sc_calls>>
    /\ UNCHANGED <<cohortVars, lrVars, thVars, kmVars, tbVars>>

\* lines 228-248: one gene, split at its median
ScanGene ==
    /\ sc_pc = "genes"
    /\ sc_k <= Len(GeneNames)
    /\ LET gene == GeneNames[sc_k]
           mask == NotMissing(tb_genes[gene])
           d == Keep(tb_time, mask)
           e == Keep(tb_event, mask)
           vals == Keep(tb_genes[gene], mask)
           threshold == Percentile(vals, 50)
           grp == SplitAt(vals, threshold)
       IN  /\ durations' = d
           /\ events' = e
           /\ values' = vals
           /\ groups' = grp
           /\ IF TooFewGroups(grp)
              THEN /\ skipped' = Append(skipped, gene)
                   /\ UNCHANGED <<gene_results, sc_calls>>
              ELSE /\ sc_calls' = Append(sc_calls, grp)
                   /\ gene_results' = Append(gene_results,
                          [gene |-> gene, threshold |-> threshold,
                           p_value |-> calculate_logrank(d, e, grp)[2]])
                   /\ UNCHANGED skipped
    /\ sc_k' = sc_k + 1
    /\ UNCHANGED <<sc_pc, results, variables_file, genes_file, plots, warnings>>
    /\ UNCHANGED <<th_pc, th_q, min_p_value, optimal_threshold, th_calls, th_result>>
    /\ UNCHANGED <<lrVars, kmVars, tbVars>>

\* lines 251-259: gene_results_df['p_value'] raises KeyError when no gene
\* gave a row (a DataFrame of no rows has no columns); otherwise
\* survival_genes.csv is written.  The adjusted p-values and the order of
\* the rows are not modelled.
ScanSaveGenes ==
    /\ sc_pc = "genes"
    /\ sc_k > Len(GeneNames)
    /\ IF gene_results = <<>>
       THEN sc_pc' = "crashed" /\ UNCHANGED genes_file
       ELSE sc_pc' = "done" /\ genes_file' = gene_results
    /\ UNCHANGED <<sc_k, results, variables_file, gene_results, plots, warnings,
                   skipped, sc_calls>>
    /\ UNCHANGED <<cohortVars, lrVars, thVars, kmVars, tbVars>>

\* the requests drawn: a metadata variable, an unknown name and the gene
\* scan; a gene asked for by name; an unknown name alone
RequestLists == {<<"var", "nope", "GENES">>, <<"g1", "GENES">>, <<"nope">>}

\* rows of a table in dictionary order
RECURSIVE LexLeq(_, _, _)
LexLeq(a, b, i) ==
    IF i > Len(a) THEN TRUE
    ELSE a[i] < b[i] \/ (a[i] = b[i] /\ LexLeq(a, b, i + 1))

\* Rows are (time, var, g1, g2), one or more; every event flag is 1.  The
\* rows are drawn
\* in ascending order only (the scan reads a column through masks, sorts and
\* row-wise tests), and a column the request never reads is held at 1.
Tables(request) ==
    {t \in SeqsUpTo(DurationDomain \X {0, 1, 2} \X {1, 2} \X {1, 2}, MaxScanRows) :
        /\ Len(t) >= 1
        /\ \A i \in 1..(Len(t) - 1) : LexLeq(t[i], t[i + 1], 1)
        /\ "var" \notin Range(request) => \A i \in 1..Len(t) : t[i][2] = 1
        /\ "GENES" \notin Range(request) =>
              \A i \in 1..Len(t) : t[i][3] = 1 /\ t[i][4] = 1}

InitScan ==
    /\ group_columns \in RequestLists
    /\ \E t \in Tables(group_columns) :
          /\ tb_time = [i \in 1..Len(t) |-> t[i][1]]
          /\ tb_event = [i \in 1..Len(t) |-> 1]
          /\ tb_var = [i \in 1..Len(t) |-> t[i][2]]
          /\ tb_genes = [g \in Range(GeneNames) |->
                            [i \in 1..Len(t) |-> IF g = "g1" THEN t[i][3] ELSE t[i][4]]]
    /\ tb_kind \in IF "var" \in Range(group_columns)
                   THEN {"numerical", "categorical"} ELSE {"numerical"}
    /\ durations = <<>> /\ events = <<>> /\ groups = <<>>
    /\ LogrankIdle
    /\ ThresholdIdle
    /\ CurveIdle
    /\ sc_pc = "columns"
    /\ sc_k = 1
    /\ results = <<>>
    /\ variables_file = <<>>
    /\ gene_results = <<>>
    /\ genes_file = <<>>
    /\ plots = <<>>
    /\ warnings = <<>>
    /\ skipped = <<>>
    /\ sc_calls = <<>>

NextScan ==
    \/ ScanSentinel \/ ScanUnknown \/ ScanCallThreshold \/ ScanNumerical
    \/ ScanCategorical \/ ScanSaveVariables \/ ScanGene \/ ScanSaveGenes
    \/ ThresholdMedian \/ ThresholdStart \/ ThresholdCandidate \/ ThresholdReturn

SpecScan == InitScan /\ [][NextScan]_vars

----------------------------------------------------------------------------
(* Properties of calculate_logrank *)

NumGroups == Len(Unique(groups))

\* the variance matrix as line 46 leaves it
ReducedV == [i \in 1..(NumGroups - 1) |-> [j \in 1..(NumGroups - 1) |-> V[i][j]]]

\* at every event time all subjects at risk belong to one group
OneGroupAtRisk ==
    \A i \in 1..Len(durations) :
        events[i] = 1 =>
            \E grp \in Range(groups) :
                \A k \in 1..Len(durations) :
                    durations[k] >= durations[i] => groups[k] = grp

\* the observations with positions i and i + 1 exchanged
SwapAt(s, i) ==
    [k \in 1..Len(s) |-> IF k = i THEN s[i + 1] ELSE IF k = i + 1 THEN s[i] ELSE s[k]]

Reversed(s) == [k \in 1..Len(s) |-> s[Len(s) + 1 - k]]

\* C1: calculate_logrank returns the fallback (statistic 0, p-value 1) for
\* every degenerate input: fewer than 2 distinct groups, or a singular
\* reduced variance matrix (as when no event occurs, or when at every event
\* time all subjects at risk belong to one group).
C1_DegenerateFallback ==
    (lr_pc = "done" /\ (NumGroups < 2 \/ IsSingular(ReducedV) \/ OneGroupAtRisk))
        => lr_result = <<Zero, POne>>

\* The part of C1 the code keeps: two or more groups and a variance matrix
\* that is singular give the fallback.
LogrankSingularFallback ==
    (lr_pc = "done" /\ NumGroups >= 2 /\ IsSingular(ReducedV))
        => lr_result = <<Zero, POne>>

\* C3: the result of calculate_logrank is unchanged under every permutation
\* of the group identifiers and under reordering the observations (the
\* reversal and every exchange of two neighbours, which generate all orders).
C3_RelabelReorderInvariant ==
    lr_pc = "done" =>
        /\ \A f \in Permutations(GroupDomain) :
              calculate_logrank(durations, events,
                                [i \in 1..Len(groups) |-> f[groups[i]]]) = lr_result
        /\ calculate_logrank(Reversed(durations), Reversed(events), Reversed(groups))
              = lr_result
        /\ \A i \in 1..(Len(groups) - 1) :
              calculate_logrank(SwapAt(durations, i), SwapAt(events, i),
                                SwapAt(groups, i)) = lr_result

\* a finished test of three groups, given in an order that is not the order
\* of their labels, with a positive statistic
C3_Witness ==
    /\ lr_pc = "done"
    /\ NumGroups = 3
    /\ groups[1] > groups[Len(groups)]
    /\ lr_result[2].kind = "sf"

\* C8: a time with no event, or with at most one subject at risk, adds
\* nothing to O_E or V (the factor of line 35 is not evaluated with
\* n_at_risk - 1 = 0).
C8_SkipsAtRiskOne ==
    [][(/\ lr_pc = "loop"
        /\ lr_times # <<>>
        /\ \/ NEvents(durations, events, Head(lr_times)) = 0
           \/ NAtRisk(durations, Head(lr_times)) <= 1)
       => (O_E' = O_E /\ V' = V)]_vars

----------------------------------------------------------------------------
(* Properties of find_optimal_threshold *)

Percentiles == FirstPercentile..LastPercentile

\* no candidate splits the observations into two non-empty groups
NoCandidateSplits ==
    \A q \in Percentiles : SearchSkips(SplitAt(values, Percentile(values, q)))

\* C2: the threshold returned is never outside [20th, 80th percentile] of
\* the values and is one of the 61 candidates or the median; with fewer
\* than 3 observations it is the median, found without any search, and
\* when no candidate gives two non-empty groups it is the median.  (Of no
\* observations the median and every percentile are nan.)
C2_ThresholdInWindow ==
    th_pc = "done" =>
        /\ ~FLess(th_result, Percentile(values, 20))
        /\ ~FLess(Percentile(values, 80), th_result)
        /\ \/ th_result = Median(values)
           \/ \E q \in 20..80 : th_result = Percentile(values, q)
        /\ Len(values) < 3 => (th_result = Median(values) /\ th_calls = <<>>)
        /\ NoCandidateSplits => th_result = Median(values)

\* a search that ended on a candidate that is neither the median nor the
\* first candidate evaluated, with a p-value below 1
C2_Witness ==
    /\ th_pc = "done"
    /\ Len(values) >= 3
    /\ th_calls # <<>>
    /\ th_result # Median(values)
    /\ th_result # th_calls[1].threshold
    /\ min_p_value.kind = "sf"

SearchFirstMinimumWithoutNaN ==
    (/\ th_pc = "done" /\ Len(values) >= 3 /\ th_calls # <<>>
     /\ \A j \in 1..Len(th_calls) : th_calls[j].p_value.kind # "nan") =>
        \E k \in 1..Len(th_calls) :
            /\ th_calls[k].threshold = th_result
            /\ \A j \in 1..Len(th_calls) :
                  PLeq(th_calls[k].p_value, th_calls[j].p_value)
            /\ \A j \in 1..(k - 1) :
                  PLess(th_calls[k].p_value, th_calls[j].p_value)

----------------------------------------------------------------------------
(* Properties of the curve estimator *)

\* the Kaplan-Meier (product-limit) estimate at time t, of the observations
\* (d, e) of one group: the product over the distinct event times s <= t of
\* 1 - d_s / n_s
RECURSIVE ProductLimit(_, _, _)
ProductLimit(d, e, times) ==
    IF times = <<>> THEN One
    ELSE LET s == Head(times)
         IN  FMul(FSub(One, FDiv(FInt(NEvents(d, e, s)), FInt(NAtRisk(d, s)))),
                  ProductLimit(d, e, Tail(times)))

KaplanMeier(d, e, t) ==
    ProductLimit(d, e, SortedSeq({s \in Range(EventTimes(d, e)) : s <= t}))

GroupOf(k) == Unique(groups)[k]
GroupDurations(k) == Masked(durations, groups, GroupOf(k))
GroupEvents(k) == Masked(events, groups, GroupOf(k))

\* position of time t in a sequence of distinct times
IndexOf(times, t) == CHOOSE k \in 1..Len(times) : times[k] = t

IsCurve(times, surv) ==
    /\ Len(times) = Len(surv)
    /\ Len(times) >= 1
    /\ times[1] = 0
    /\ surv[1] = One
    /\ \A k \in 1..Len(surv) : FLeq(Zero, surv[k]) /\ FLeq(surv[k], One)
    /\ \A k \in 1..(Len(surv) - 1) : times[k] < times[k + 1] /\ FLeq(surv[k + 1], surv[k])

\* C4: the survival sequence starts at time 0 with probability 1, stays in
\* [0, 1] and is non-increasing along the ascending distinct times, after
\* every observation processed and in what is drawn.
C4_CurveStartsAtOneNonIncreasing ==
    /\ km_pc = "walk" => IsCurve(unique_times, survival)
    /\ \A k \in 1..Len(plotted) : IsCurve(plotted[k].times, plotted[k].survival)

\* a group with an observation of duration 0, every observation processed
\* and a curve that has dropped twice
C4_Witness ==
    /\ km_pc = "walk"
    /\ idx = Len(duration_sorted)
    /\ idx >= 2
    /\ duration_sorted[1] = 0
    /\ Len(survival) >= 3
    /\ FLess(survival[2], One)
    /\ FLess(survival[Len(survival)], survival[2])

\* C6: the probability drawn at each distinct time of a group is the
\* Kaplan-Meier value at that time.
C6_CurveIsKaplanMeier ==
    \A k \in 1..Len(plotted) :
        \A m \in 1..Len(plotted[k].times) :
            plotted[k].survival[m]
                = KaplanMeier(GroupDurations(k), GroupEvents(k), plotted[k].times[m])

\* the censored durations of group k, ascending, repeats kept
CensoredDurations(k) ==
    LET d == GroupDurations(k)
        e == GroupEvents(k)
        pos == ArgSort(d)
        RECURSIVE KeepCensored(_)
        KeepCensored(i) == IF i > Len(pos) THEN <<>>
                   ELSE IF e[pos[i]] = 0 THEN <<d[pos[i]]>> \o KeepCensored(i + 1)
                   ELSE KeepCensored(i + 1)
    IN  KeepCensored(1)

\* C10: one marker per censored observation, at its duration, with the
\* probability the curve has at that time; none for an event; at_risk goes
\* down by one with every observation processed.
C10_MarkersOnCurve ==
    /\ km_pc = "walk" => at_risk = Len(duration_sorted) - idx
    /\ \A k \in 1..Len(plotted) :
          /\ plotted[k].censored_times = CensoredDurations(k)
          /\ Len(plotted[k].censored_survivals) = Len(plotted[k].censored_times)
          /\ \A m \in 1..Len(plotted[k].censored_times) :
                plotted[k].censored_survivals[m]
                    = plotted[k].survival[IndexOf(plotted[k].times,
                                                  plotted[k].censored_times[m])]

\* What the code keeps of C10: the markers are the censored observations,
\* each with the probability of the preceding distinct time (of its own
\* time, when the duration is 0), whenever the group has a positive duration.
MarkersAtPrecedingStep ==
    /\ km_pc = "walk" => at_risk = Len(duration_sorted) - idx
    /\ \A k \in 1..Len(plotted) :
          Len(plotted[k].times) >= 2 =>
              /\ plotted[k].censored_times = CensoredDurations(k)
              /\ Len(plotted[k].censored_survivals) = Len(plotted[k].censored_times)
              /\ \A m \in 1..Len(plotted[k].censored_times) :
                    LET at == IndexOf(plotted[k].times, plotted[k].censored_times[m])
                    IN  plotted[k].censored_survivals[m]
                            = plotted[k].survival[IF at = 1 THEN 1 ELSE at - 1]

----------------------------------------------------------------------------
(* Properties of the scan *)

\* every use of calculate_logrank so far was given two or more labels
LogrankNeverUnderTwoGroups ==
    /\ \A k \in 1..Len(sc_calls) : Len(Unique(sc_calls[k])) >= 2
    /\ \A k \in 1..Len(th_calls) : Len(Unique(th_calls[k].groups)) >= 2

\* C5: calculate_logrank is never given fewer than 2 distinct labels, by
\* the threshold search, the numerical branch, the categorical branch or
\* the gene scan, and the scan passes over a variable or gene of one group
\* without crashing.
C5_NoSingleGroupCallNoCrash ==
    /\ LogrankNeverUnderTwoGroups
    /\ sc_pc # "crashed"

\* C7: every variable or gene passed over for having fewer than 2 groups
\* has a warning; at the end every requested variable and every gene is in
\* the results written or has a warning.
C7_SkipsAreWarned ==
    /\ \A k \in 1..Len(skipped) : skipped[k] \in Range(warnings)
    /\ sc_pc = "done" =>
          /\ \A k \in 1..Len(group_columns) :
                \/ group_columns[k] = "GENES"
                \/ group_columns[k] \in Range(warnings)
                \/ \E r \in 1..Len(variables_file) :
                      variables_file[r].variable = group_columns[k]
          /\ "GENES" \in Range(group_columns) =>
                \A g \in Range(GeneNames) :
                    \/ g \in Range(warnings)
                    \/ \E r \in 1..Len(genes_file) : genes_file[r].gene = g

====
